---- MODULE Spec2Model ----
(***************************************************************************)
(* A model of main.py: the gradient attack on a face-recognition embedding *)
(* (cal_source_grad, iterative_grad_attack) and the batch orchestration    *)
(* around it (PairDataset, attack, the __main__ block).                    *)
(*                                                                         *)
(* Floating-point values are records: [k |-> "fin", v |-> n] is the finite *)
(* value n, [k |-> "inf", v |-> 1 or -1] the infinities and                  *)
(* [k |-> "nan", v |-> 0] not-a-number.  Pixel values of a normalized tensor *)
(* are in units of 1.0; similarities are in hundredths (99 is 0.99).       *)
(* A batch tensor is a sequence holding one pixel per sample of the batch. *)
(***************************************************************************)
EXTENDS Integers, Sequences, FiniteSets, TLC

\* ------------------------------------------------------------------ bounds
\* Largest --attack_steps and --attack_batch_size of a call of
\* iterative_grad_attack taken alone (SpecOpt).
MaxSteps == 2
MaxBatch == 2
\* Largest --attack_steps and --attack_batch_size of a whole run (Spec).
RunMaxSteps == 1
RunMaxBatch == 2
\* Largest number of images in val_cropped/ and of lines in test/pair.txt.
MaxIds == 2

\* ------------------------------------------------------- floating point
Fin(n) == [k |-> "fin", v |-> n]
NaN == [k |-> "nan", v |-> 0]
PInf == [k |-> "inf", v |-> 1]
NInf == [k |-> "inf", v |-> -1]

IsFinite(x) == x.k = "fin"

Sgn(n) == IF n > 0 THEN 1 ELSE IF n < 0 THEN -1 ELSE 0

\* IEEE addition, the + of line 117.
Add(a, b) ==
    IF a.k = "nan" \/ b.k = "nan" THEN NaN
    ELSE IF a.k = "inf" /\ b.k = "inf" THEN (IF a.v = b.v THEN a ELSE NaN)
    ELSE IF a.k = "inf" THEN a
    ELSE IF b.k = "inf" THEN b
    ELSE Fin(a.v + b.v)

\* IEEE multiplication, the * of line 117 (lr * grad).
Mul(a, b) ==
    IF a.k = "nan" \/ b.k = "nan" THEN NaN
    ELSE IF a.k = "inf" \/ b.k = "inf"
         THEN (IF Sgn(a.v) * Sgn(b.v) = 0 THEN NaN
               ELSE [k |-> "inf", v |-> Sgn(a.v) * Sgn(b.v)])
    ELSE Fin(a.v * b.v)

\* IEEE a > b: false as soon as one side is NaN (line 119).
Gt(a, b) ==
    IF a.k = "nan" \/ b.k = "nan" THEN FALSE
    ELSE IF a.k = "inf" THEN a.v = 1 /\ b # PInf
    ELSE IF b.k = "inf" THEN b.v = -1
    ELSE a.v > b.v

\* The bounds of the valid normalized pixel range, line 118.
ClampMin == -1
ClampMax == 1

\* torch.clamp(x, -1.0, 1.0) on one element: NaN is propagated.
Clamp(x) ==
    IF x.k = "nan" THEN NaN
    ELSE IF Gt(Fin(ClampMin), x) THEN Fin(ClampMin)
    ELSE IF Gt(x, Fin(ClampMax)) THEN Fin(ClampMax)
    ELSE x

\* perturbed_img + lr * grad, then clamp, elementwise (lines 117-118).
UpdateTensor(img, lr, g) ==
    [i \in 1..Len(img) |-> Clamp(Add(img[i], Mul(lr, g[i])))]

\* image_tensor * 128.0 + 127.5 (lines 57-58), in half pixel units:
\* 2 * (x * 128 + 127.5) = 256 x + 255.
fixed_image_standardization_inverse(x) ==
    Add(Mul(x, Fin(256)), Fin(255))

\* Every element of a tensor lies in [-1, 1].
InRange(img) ==
    \A i \in 1..Len(img) :
        /\ IsFinite(img[i])
        /\ img[i].v >= ClampMin
        /\ img[i].v <= ClampMax

\* 0.99 in hundredths, the threshold of line 119.
Threshold == 99

EarlyStopGe(sim) == ~Gt(Fin(Threshold), sim) /\ sim.k # "nan"

EarlyStopInverted(sim) == Gt(Fin(Threshold), sim)

\* similarity > 0.99 (line 119).
EarlyStop(sim) == Gt(sim, Fin(Threshold))

\* ---------------------------------------------------------------- inputs
\* Command-line values the arguments are drawn from (lines 268-277).
LRs == {Fin(-2), Fin(0), Fin(2)}
\* The learning rates of a whole run (Spec).
RunLRs == {Fin(0), Fin(2)}
StepCounts == 0..MaxSteps
BatchSizes == 1..MaxBatch

\* Pixel values preprocess_image yields for a cropped face (line 27: in [-1, 1]).
Pixels == {Fin(0), Fin(1)}
\* The pixel values of a whole run (Spec).
RunPixels == {Fin(0)}

\* What the embedding provider can hand back: a similarity (in hundredths) and,
\* per element of the image, a gradient.  The provider is an external black box.
SimValues == {Fin(99), Fin(100), NaN}
GradValues == {Fin(1), NaN}

\* Identifiers are four characters long, as main.py assumes with [:4].
Digits == <<"1", "2", "3", "4", "5">>
IdOf(n) == <<"0", "0", "0", Digits[n]>>

\* '<dir>/<id>_cropped.png'
CroppedPath(dir, id) == [dir |-> dir, name |-> id \o <<"_cropped.png">>]

\* path.split('/')[-1][:4] (lines 176-177, 230-231)
IdOfPath(path) == SubSeq(path.name, 1, 4)

\* A token of test/pair.txt, '<id>.png', and token[:4] (lines 206, 209).
Token(id) == id \o <<".png">>
IdOfToken(tok) == SubSeq(tok, 1, 4)

\* The lines test/pair.txt can hold: 'src tgt', or a line with one token only.
PairLines ==
    {<<Token(IdOf(1)), Token(IdOf(2))>>, <<Token(IdOf(2)), Token(IdOf(1))>>,
     <<Token(IdOf(1))>>}

SeqsUpTo(S, n) == UNION {[1..m -> S] : m \in 0..n}

PairFiles == SeqsUpTo(PairLines, MaxIds)

Range(s) == {s[i] : i \in 1..Len(s)}

\* The rearrangements of a list.
Orderings(s) ==
    {[i \in 1..Len(s) |-> s[p[i]]] :
        p \in {q \in [1..Len(s) -> 1..Len(s)] : Range(q) = 1..Len(s)}}

\* The cropped images of a val_cropped/ directory of n images, by ascending id.
ValPaths(n) == [i \in 1..n |-> CroppedPath("val_cropped", IdOf(i))]

\* glob.glob('val_cropped/*_cropped.png') for a directory of n images (line 143):
\* the paths, in an order that is the file system's choice (glob does not sort).
GlobVal(n) == Orderings(ValPaths(n))

choice(s) == [1..Len(s) -> Range(s)]

\* np.random.permutation(list), over every seed (lines 139, 144): the
\* rearrangements of the list.
permutation(s) == Orderings(s)

NoDataset == [ok |-> FALSE, source_image_paths |-> <<>>, target_image_paths |-> <<>>]

\* PairDataset.__init__ (lines 31-35): ok is FALSE when the assert fails, and
\* then no field has been assigned.
PairDataset(src, tgt) ==
    IF Len(src) = Len(tgt)
    THEN [ok |-> TRUE, source_image_paths |-> src, target_image_paths |-> tgt]
    ELSE NoDataset

Min(a, b) == IF a < b THEN a ELSE b

\* ----------------------------------------------------------------- state
VARIABLES
    pc,             \* position of the program
    mode,           \* "none", then the mode attack() runs in: "val" or "test"
    args,           \* [lr, n_steps, batch_size]: attack_lr, attack_steps, attack_batch_size
    dirs,           \* directories that exist
    files,          \* files the run has written: [dir, name]
    dataset,        \* the PairDataset of the current attack()
    ctorArgs,       \* the two lists the last PairDataset(...) call was given
    consumed,       \* samples of the dataset the DataLoader has handed out
    batch_idx,      \* batches handed out in the current attack()
    src_paths,      \* the current batch: source paths
    tgt_paths,      \* the current batch: target paths
    source_img,     \* the current batch: source tensor
    target_img,     \* the current batch: target tensor (one image per path)
    target_rep,     \* iterative_grad_attack: the target embedding
    perturbed_img,  \* iterative_grad_attack: the working image
    step,           \* iterative_grad_attack: the loop variable
    grad,           \* the gradient cal_source_grad returned
    similarity,     \* the similarity cal_source_grad returned
    rep_dist,       \* the similarity iterative_grad_attack returns
    adv_imgs,       \* the images iterative_grad_attack returns
    simOf,          \* the provider's similarity for each image seen in this call
    gradOf,         \* the provider's image gradient for each image seen in this call
    paramGrad,      \* backward passes accumulated in the provider's parameter .grad
    weights,        \* the provider's weights
    extraction,     \* extraction(): [image_dir, files], the directory entries left
    idx,            \* samples of the current batch already reconstructed
    pair_list,      \* pair_list of the val branch
    err,            \* the exception that ended the run, or "none"
    hist            \* history of the current optimizer call and of the run

vars ==
    <<pc, mode, args, dirs, files, dataset, ctorArgs, consumed, batch_idx, src_paths,
      tgt_paths, source_img, target_img, target_rep, perturbed_img, step, grad,
      similarity, rep_dist, adv_imgs, simOf, gradOf, paramGrad, weights, extraction, idx,
      pair_list, err, hist>>

runVars == <<mode, args, dirs, files, dataset, ctorArgs, consumed, batch_idx, pair_list, err>>
batchVars == <<src_paths, tgt_paths, source_img, target_img, idx>>
optVars == <<target_rep, perturbed_img, step, grad, similarity, rep_dist, adv_imgs, simOf, gradOf>>

\* The pretrained weights InceptionResnetV1 loads (line 136).
Pretrained == "vggface2"

\* No extraction() call is running.
NoExtraction == [image_dir |-> "none", files |-> <<>>]

NoFloat == NaN
EmptyFn == [x \in {} |-> NaN]

\* History of one call of iterative_grad_attack.
NoCallHist ==
    [nEvals |-> 0, nUpdates |-> 0, firstHigh |-> 0, measured |-> <<>>,
     nTargetRep |-> 0, nonFinite |-> FALSE]

\* History of the run: batches handed to the optimizer, samples reconstructed,
\* samples whose metadata was missing, and whether the optimization of the
\* current batch met a non-finite similarity or gradient.
NoHist ==
    [call |-> NoCallHist, batches |-> 0, samples |-> <<>>, missing |-> <<>>,
     tainted |-> FALSE]

Init ==
    /\ pc = "start"
    /\ mode = "none"
    /\ args \in [lr : RunLRs, n_steps : 0..RunMaxSteps, batch_size : 1..RunMaxBatch,
                  face_extraction : BOOLEAN]
    /\ dirs = {}
    /\ files = {}
    /\ dataset = NoDataset
    /\ ctorArgs = <<>>
    /\ consumed = 0
    /\ batch_idx = 0
    /\ src_paths = <<>>
    /\ tgt_paths = <<>>
    /\ source_img = <<>>
    /\ target_img = <<>>
    /\ target_rep = <<>>
    /\ perturbed_img = <<>>
    /\ step = 0
    /\ grad = <<>>
    /\ similarity = NoFloat
    /\ rep_dist = NoFloat
    /\ adv_imgs = <<>>
    /\ simOf = EmptyFn
    /\ gradOf = EmptyFn
    /\ paramGrad = 0
    /\ weights = Pretrained
    /\ extraction = NoExtraction
    /\ idx = 0
    /\ pair_list = <<>>
    /\ err = "none"
    /\ hist = NoHist

\* A function extended (or overwritten) at one point.
Extend(f, x, y) == [z \in DOMAIN f \cup {x} |-> IF z = x THEN y ELSE f[z]]

\* What the provider answers for an image: its earlier answer if it was asked
\* before in this call (the provider is deterministic), any value otherwise.
Answers(f, x, S) == IF x \in DOMAIN f THEN {f[x]} ELSE S

\* The embedding of a batch, one per sample; the provider is a black box, so an
\* embedding is the image it was computed from, tagged.
Embed(img) == [i \in 1..Len(img) |-> <<"rep", img[i]>>]

AllFinite(t) == \A i \in 1..Len(t) : IsFinite(t[i])

\* ------------------------------------------------- iterative_grad_attack
\* Lines 108-113: the target embedding, then the clone of the source.
TargetRep ==
    /\ pc = "attack_call"
    /\ target_rep' = Embed(target_img)
    /\ perturbed_img' = source_img
    /\ step' = 0
    /\ grad' = <<>>
    /\ similarity' = NoFloat
    /\ rep_dist' = NoFloat
    /\ adv_imgs' = <<>>
    /\ simOf' = EmptyFn
    /\ gradOf' = EmptyFn
    /\ hist' = [hist EXCEPT !.call = [NoCallHist EXCEPT !.nTargetRep = 1],
                            !.batches = @ + 1]
    /\ pc' = "loop"
    /\ UNCHANGED <<runVars, batchVars, paramGrad, weights, extraction>>

\* Line 114: for step in range(1, n_steps+1).
LoopNext ==
    /\ pc = "loop"
    /\ step < args.n_steps
    /\ step' = step + 1
    /\ pc' = "forward"
    /\ UNCHANGED <<runVars, batchVars, target_rep, perturbed_img, grad, similarity,
                   rep_dist, adv_imgs, simOf, gradOf, paramGrad, weights, extraction, hist>>

LoopEnd ==
    /\ pc = "loop"
    /\ ~(step < args.n_steps)
    /\ pc' = "final"
    /\ UNCHANGED <<runVars, batchVars, optVars, paramGrad, weights, extraction, hist>>

\* cal_source_grad, lines 96-99: the forward pass and the similarity.
Forward ==
    /\ pc = "forward"
    /\ \E s \in Answers(simOf, perturbed_img, SimValues) :
        /\ simOf' = Extend(simOf, perturbed_img, s)
        /\ hist' = [hist EXCEPT
                !.call.nEvals = @ + 1,
                !.call.measured = perturbed_img,
                !.call.firstHigh =
                    IF @ = 0 /\ Gt(s, Fin(Threshold)) THEN step ELSE @,
                !.call.nonFinite = @ \/ ~IsFinite(s)]
    /\ pc' = "zero_grad"
    /\ UNCHANGED <<runVars, batchVars, target_rep, perturbed_img, step, grad,
                   similarity, rep_dist, adv_imgs, gradOf, paramGrad, weights, extraction>>

keep_grad(g) == g

\* inception_model.zero_grad(): the stored parameter gradients are cleared.
zero_grad(g) == 0

\* cal_source_grad, line 101.
ZeroGrad ==
    /\ pc = "zero_grad"
    /\ paramGrad' = zero_grad(paramGrad)
    /\ pc' = "backward"
    /\ UNCHANGED <<runVars, batchVars, optVars, weights, extraction, hist>>

\* cal_source_grad, lines 103-105: backward() adds to the parameters' .grad and
\* fills the image's; the call returns the image gradient and the similarity.
Backward ==
    /\ pc = "backward"
    /\ \E g \in Answers(gradOf, perturbed_img, [1..Len(perturbed_img) -> GradValues]) :
        /\ gradOf' = Extend(gradOf, perturbed_img, g)
        /\ grad' = g
        /\ hist' = [hist EXCEPT !.call.nonFinite = @ \/ ~AllFinite(g)]
    /\ similarity' = simOf[perturbed_img]
    /\ paramGrad' = paramGrad + 1
    /\ pc' = "update"
    /\ UNCHANGED <<runVars, batchVars, target_rep, perturbed_img, step, rep_dist,
                   adv_imgs, simOf, weights, extraction>>

\* Lines 117-118: the ascent step and the projection.
Update ==
    /\ pc = "update"
    /\ perturbed_img' = UpdateTensor(perturbed_img, args.lr, grad)
    /\ hist' = [hist EXCEPT !.call.nUpdates = @ + 1]
    /\ pc' = "check"
    /\ UNCHANGED <<runVars, batchVars, target_rep, step, grad, similarity, rep_dist,
                   adv_imgs, simOf, gradOf, paramGrad, weights, extraction>>

\* Lines 119-120: the early stop.
Check ==
    /\ pc = "check"
    /\ pc' = IF EarlyStop(similarity) THEN "final" ELSE "loop"
    /\ UNCHANGED <<runVars, batchVars, optVars, paramGrad, weights, extraction, hist>>

LastSimilarity(fresh, last) == last

\* Lines 123-124: the similarity returned is the one of the final forward pass.
FinalSimilarity(fresh, last) == fresh

\* Lines 123-131: the final forward pass, the denormalized images, the return.
Final ==
    /\ pc = "final"
    /\ \E s \in Answers(simOf, perturbed_img, SimValues) :
        /\ simOf' = Extend(simOf, perturbed_img, s)
        /\ rep_dist' = FinalSimilarity(s, similarity)
    /\ adv_imgs' = [i \in 1..Len(perturbed_img) |->
                        fixed_image_standardization_inverse(perturbed_img[i])]
    /\ pc' = "returned"
    /\ UNCHANGED <<runVars, batchVars, target_rep, perturbed_img, step, grad,
                   similarity, gradOf, paramGrad, weights, extraction, hist>>

\* ------------------------------------------------------------ orchestration
LogDir(m) == IF m = "val" THEN "logs/val" ELSE "logs/test"

\* '{}_adv.png'.format(source_id) and '{}.png'.format(target_id), lines 178-179.
SourceName(path) == IdOfPath(path) \o <<"_adv.png">>
TargetName(path) == IdOfPath(path) \o <<".png">>

\* A file written at dir/name replaces the one that was there.
WriteFile(fs, dir, name, data) ==
    {f \in fs : ~(f.dir = dir /\ f.name = name)}
        \cup {[dir |-> dir, name |-> name, data |-> data]}

\* Lines 298-316: the directories, then face_extraction(args) with
\* --face_extraction and attack(args, 'val') without.
MainDirs ==
    /\ pc = "start"
    /\ dirs' = dirs \cup {"logs", "val_cropped", "test_cropped", "logs/val", "logs/test"}
    /\ mode' = IF args.face_extraction THEN mode ELSE "val"
    /\ pc' = IF args.face_extraction THEN "face_extraction" ELSE "attack_begin"
    /\ UNCHANGED <<args, files, dataset, ctorArgs, consumed, batch_idx, pair_list, err,
                   batchVars, optVars, paramGrad, weights, extraction, hist>>

\* ---------------------------------------------------------- face extraction
\* '<id>.png', a directory entry that is an image.
ImageEntry(id) == id \o <<".png">>

\* The entries of a directory of n images; test/ holds pair.txt as well.
Entries(image_dir, n) ==
    [i \in 1..n |-> ImageEntry(IdOf(i))]
        \o (IF image_dir = "test" THEN <<<<"pair", ".txt">>>> ELSE <<>>)

\* os.listdir(image_dir) (line 62): the entries, in an order that is the file
\* system's choice.
ListDir(image_dir, n) == Orderings(Entries(image_dir, n))

\* file.endswith('png') (line 64)
EndsWithPng(file) == file[Len(file)] = ".png"

\* file.split('.')[0] (line 68)
IdOfEntry(file) == SubSeq(file, 1, Len(file) - 1)

\* '{}_cropped'.format(image_dir) (lines 71, 76)
CroppedDirOf(image_dir) == IF image_dir = "val" THEN "val_cropped" ELSE "test_cropped"

\* Lines 79-82 and 61-62: extraction('val', mtcnn), then extraction('test', mtcnn);
\* each starts by listing its directory.
ExtractionBegin ==
    /\ pc = "face_extraction"
    /\ LET image_dir == IF extraction.image_dir = "none" THEN "val" ELSE "test"
       IN  \E n \in 0..MaxIds :
               \E listing \in ListDir(image_dir, n) :
                   extraction' = [image_dir |-> image_dir, files |-> listing]
    /\ pc' = "extraction"
    /\ UNCHANGED <<runVars, batchVars, optVars, paramGrad, weights, hist>>

\* Lines 63-65: an entry that is no png is passed over.
ExtractSkip ==
    /\ pc = "extraction"
    /\ extraction.files # <<>>
    /\ ~EndsWithPng(Head(extraction.files))
    /\ extraction' = [extraction EXCEPT !.files = Tail(@)]
    /\ UNCHANGED <<pc, runVars, batchVars, optVars, paramGrad, weights, hist>>

\* Lines 63-76: the detector saves the cropped face, and the box is pickled
\* beside it.
ExtractFile ==
    /\ pc = "extraction"
    /\ extraction.files # <<>>
    /\ EndsWithPng(Head(extraction.files))
    /\ LET id == IdOfEntry(Head(extraction.files))
           dir == CroppedDirOf(extraction.image_dir)
       IN  files' = WriteFile(
                        WriteFile(files, dir, id \o <<"_cropped.png">>, <<"mtcnn", id>>),
                        dir, id \o <<"_info.pkl">>, <<"info", id>>)
    /\ extraction' = [extraction EXCEPT !.files = Tail(@)]
    /\ UNCHANGED <<pc, mode, args, dirs, dataset, ctorArgs, consumed, batch_idx,
                   pair_list, err, batchVars, optVars, paramGrad, weights, hist>>

\* Line 63, the listing exhausted: extraction() returns, to the next call of
\* face_extraction (line 82) or to the end of the program (line 314).
ExtractionEnd ==
    /\ pc = "extraction"
    /\ extraction.files = <<>>
    /\ pc' = IF extraction.image_dir = "val" THEN "face_extraction" ELSE "exit"
    /\ UNCHANGED <<runVars, batchVars, optVars, paramGrad, weights, extraction, hist>>

\* Lines 136-150 and 194-201: a new model with the pretrained weights and no
\* stored gradient, the seed, the log directory.
AttackBegin ==
    /\ pc = "attack_begin"
    /\ weights' = Pretrained
    /\ paramGrad' = 0
    /\ dirs' = dirs \cup {LogDir(mode)}
    /\ pair_list' = <<>>
    /\ pc' = "pairing"
    /\ UNCHANGED <<mode, args, files, dataset, ctorArgs, consumed, batch_idx, err,
                   batchVars, optVars, extraction, hist>>

\* The dataset a PairDataset(src, tgt) call leaves, or the AssertionError.
Construct(src, tgt) ==
    /\ ctorArgs' = <<src, tgt>>
    /\ dataset' = PairDataset(src, tgt)
    /\ consumed' = 0
    /\ batch_idx' = 0
    /\ IF PairDataset(src, tgt).ok
       THEN err' = err
       ELSE err' = "AssertionError"

\* Lines 143-144 and 153-157: the val pairing, a permutation against the list.
PairingVal ==
    /\ pc = "pairing"
    /\ mode = "val"
    /\ \E n \in 0..MaxIds :
        \E image_path_list \in GlobVal(n) :
        \E image_path_list_shuffle \in permutation(image_path_list) :
            /\ Construct(image_path_list_shuffle, image_path_list)
            /\ pc' = IF PairDataset(image_path_list_shuffle, image_path_list).ok
                     THEN "batch_loop" ELSE "aborted"
    /\ UNCHANGED <<mode, args, dirs, files, pair_list, batchVars, optVars, paramGrad,
                   weights, extraction, hist>>

\* Lines 203-214: the test pairing, read from test/pair.txt.  A line without a
\* second token raises IndexError at line 208.
PairingTest ==
    /\ pc = "pairing"
    /\ mode = "test"
    /\ \E lines \in PairFiles :
        IF \E i \in 1..Len(lines) : Len(lines[i]) < 2
        THEN /\ err' = "IndexError"
             /\ pc' = "aborted"
             /\ UNCHANGED <<dataset, ctorArgs, consumed, batch_idx>>
        ELSE LET src == [i \in 1..Len(lines) |->
                            CroppedPath("test_cropped", IdOfToken(lines[i][1]))]
                 tgt == [i \in 1..Len(lines) |->
                            CroppedPath("test_cropped", IdOfToken(lines[i][2]))]
             IN  /\ Construct(src, tgt)
                 /\ pc' = IF PairDataset(src, tgt).ok THEN "batch_loop" ELSE "aborted"
    /\ UNCHANGED <<mode, args, dirs, files, pair_list, batchVars, optVars, paramGrad,
                   weights, extraction, hist>>

\* Whether Image.open (line 25) finds the cropped image at a path.  The val
\* paths were listed by glob a moment ago, and an image this run wrote or opened
\* before is there; any other is as the directory was left.
ImageExists(fs, m, opened, path) ==
    IF \/ m = "val"
       \/ path \in opened
       \/ \E f \in fs : f.dir = path.dir /\ f.name = path.name
    THEN {TRUE}
    ELSE BOOLEAN

\* The outcomes of opening every image of a list of paths: it succeeds when
\* every image is found.
ImagesExist(fs, m, opened, paths) ==
    IF \A i \in 1..Len(paths) : ImageExists(fs, m, opened, paths[i]) = {TRUE}
    THEN {TRUE}
    ELSE BOOLEAN

\* The paths of the samples the DataLoader has handed out so far.
Opened ==
    Range(SubSeq(dataset.source_image_paths, 1, consumed))
        \cup Range(SubSeq(dataset.target_image_paths, 1, consumed))

\* Lines 159 and 216, with __getitem__ (lines 40-45) and preprocess_image
\* (lines 23-27): the DataLoader hands out the next batch_size samples in order
\* (shuffle=False, drop_last=False).  Every sample opens its two cropped
\* images; a missing one raises FileNotFoundError at line 25, which reaches the
\* loop when the batch is asked for, and nothing catches it.
LoadBatch ==
    /\ pc = "batch_loop"
    /\ consumed < Len(dataset.source_image_paths)
    /\ LET n == Min(args.batch_size, Len(dataset.source_image_paths) - consumed)
           src == SubSeq(dataset.source_image_paths, consumed + 1, consumed + n)
           tgt == SubSeq(dataset.target_image_paths, consumed + 1, consumed + n)
       IN  \E found \in ImagesExist(files, mode, Opened, src \o tgt) :
               IF found
               THEN /\ src_paths' = src
                    /\ tgt_paths' = tgt
                    /\ source_img' \in [1..n -> RunPixels]
                    /\ target_img' = tgt
                    /\ consumed' = consumed + n
                    /\ batch_idx' = batch_idx + 1
                    /\ idx' = 0
                    /\ hist' = [hist EXCEPT !.tainted = FALSE]
                    /\ err' = err
                    /\ pc' = "attack_call"
               ELSE /\ err' = "FileNotFoundError"
                    /\ pc' = "aborted"
                    /\ UNCHANGED <<batchVars, consumed, batch_idx, hist>>
    /\ UNCHANGED <<mode, args, dirs, files, dataset, ctorArgs, pair_list, optVars,
                   paramGrad, weights, extraction>>

\* The DataLoader is exhausted: line 190 follows in val mode, line 244 in test mode.
BatchesDone ==
    /\ pc = "batch_loop"
    /\ ~(consumed < Len(dataset.source_image_paths))
    /\ pc' = IF mode = "val" THEN "dump" ELSE "attack_return"
    /\ UNCHANGED <<runVars, batchVars, optVars, paramGrad, weights, extraction, hist>>

\* Lines 168-174 and 222-228: iterative_grad_attack has returned; its locals are
\* gone, adv_imgs and rep_dist are kept.  The distance lists appended to here
\* feed only the means attack() returns and are not part of the state.
AfterAttack ==
    /\ pc = "returned"
    /\ target_rep' = <<>>
    /\ perturbed_img' = <<>>
    /\ step' = 0
    /\ grad' = <<>>
    /\ similarity' = NoFloat
    /\ simOf' = EmptyFn
    /\ gradOf' = EmptyFn
    /\ hist' = [hist EXCEPT !.call = NoCallHist, !.tainted = hist.call.nonFinite]
    /\ pc' = "samples"
    /\ UNCHANGED <<runVars, batchVars, rep_dist, adv_imgs, paramGrad, weights, extraction>>

RecordNothing(m, list, entry) == list

\* The pairing record of the val branch, line 189; the test branch keeps none.
Record(m, list, entry) == IF m = "val" THEN Append(list, entry) ELSE list

SkipSample ==
    /\ UNCHANGED <<files, pair_list, err>>
    /\ idx' = idx + 1
    /\ pc' = IF idx + 1 = Len(src_paths) THEN "batch_loop" ELSE "samples"

\* Lines 183 and 237: pickle.load(open('..._info.pkl')) of a file that does not
\* exist raises FileNotFoundError, which nothing catches.
MissingMetadata ==
    /\ UNCHANGED <<files, pair_list, idx>>
    /\ err' = "FileNotFoundError"
    /\ pc' = "aborted"

\* Whether '<mode>_cropped/<id>_info.pkl' can be opened (lines 183, 237): it can
\* when this run wrote it or opened it for an earlier sample; otherwise it is as
\* an earlier run left the directory.
InfoExists(fs, done, path) ==
    IF \/ \E f \in fs : f.dir = path.dir /\ f.name = IdOfPath(path) \o <<"_info.pkl">>
       \/ \E i \in 1..Len(done) : done[i].source = path
    THEN {TRUE}
    ELSE BOOLEAN

\* Lines 175-189 and 229-242: one sample of the batch is composited and saved.
Sample ==
    /\ pc = "samples"
    /\ idx < Len(src_paths)
    /\ \E info_exists \in InfoExists(files, hist.samples, src_paths[idx + 1]) :
        IF info_exists
        THEN /\ files' = WriteFile(files, LogDir(mode), SourceName(src_paths[idx + 1]),
                            <<"crop_resize_back", IdOfPath(src_paths[idx + 1])>>)
             /\ pair_list' = Record(mode, pair_list,
                    <<SourceName(src_paths[idx + 1]), TargetName(tgt_paths[idx + 1])>>)
             /\ idx' = idx + 1
             /\ err' = err
             /\ pc' = IF idx + 1 = Len(src_paths) THEN "batch_loop" ELSE "samples"
             /\ hist' = [hist EXCEPT
                    !.samples = Append(@, [mode |-> mode,
                                           source |-> src_paths[idx + 1],
                                           target |-> tgt_paths[idx + 1]])]
        ELSE /\ MissingMetadata
             /\ hist' = [hist EXCEPT
                    !.missing = Append(@, [mode |-> mode, source |-> src_paths[idx + 1]])]
    /\ UNCHANGED <<mode, args, dirs, dataset, ctorArgs, consumed, batch_idx, src_paths,
                   tgt_paths, source_img, target_img, optVars, paramGrad, weights, extraction>>

\* Line 190: pickle.dump(pair_list, ...), after the last batch of the val branch.
Dump ==
    /\ pc = "dump"
    /\ files' = WriteFile(files, LogDir(mode), <<"pair.pickle">>, pair_list)
    /\ pc' = "attack_return"
    /\ UNCHANGED <<mode, args, dirs, dataset, ctorArgs, consumed, batch_idx, pair_list,
                   err, batchVars, optVars, paramGrad, weights, extraction, hist>>

\* Line 244, then lines 316-319: attack(args, 'val') is followed by
\* attack(args, 'test'), and that by the end of the program.
AttackReturn ==
    /\ pc = "attack_return"
    /\ dataset' = NoDataset
    /\ ctorArgs' = <<>>
    /\ consumed' = 0
    /\ batch_idx' = 0
    /\ pair_list' = <<>>
    /\ src_paths' = <<>>
    /\ tgt_paths' = <<>>
    /\ source_img' = <<>>
    /\ target_img' = <<>>
    /\ idx' = 0
    /\ rep_dist' = NoFloat
    /\ adv_imgs' = <<>>
    /\ mode' = IF mode = "val" THEN "test" ELSE mode
    /\ pc' = IF mode = "val" THEN "attack_begin" ELSE "exit"
    /\ UNCHANGED <<args, dirs, files, err, target_rep, perturbed_img, step, grad,
                   similarity, simOf, gradOf, paramGrad, weights, extraction, hist>>

Next ==
    \/ MainDirs
    \/ ExtractionBegin
    \/ ExtractSkip
    \/ ExtractFile
    \/ ExtractionEnd
    \/ AttackBegin
    \/ PairingVal
    \/ PairingTest
    \/ LoadBatch
    \/ BatchesDone
    \/ TargetRep
    \/ LoopNext
    \/ LoopEnd
    \/ Forward
    \/ ZeroGrad
    \/ Backward
    \/ Update
    \/ Check
    \/ Final
    \/ AfterAttack
    \/ Sample
    \/ Dump
    \/ AttackReturn

Spec == Init /\ [][Next]_vars

\* ------------------------------------------- iterative_grad_attack alone
\* The states in which iterative_grad_attack is entered for the first batch of
\* the val branch, over every argument and every source batch.  The optimizer
\* never reads a path: the batch is taken from the listing by ascending id with
\* every image paired with itself, the paths naming the target images.
InitOpt ==
    /\ pc = "attack_call"
    /\ mode = "val"
    /\ args \in [lr : LRs, n_steps : StepCounts, batch_size : BatchSizes,
                  face_extraction : {FALSE}]
    /\ dirs = {"logs", "val_cropped", "test_cropped", "logs/val", "logs/test"}
    /\ files = {}
    /\ \E n \in 1..Min(args.batch_size, MaxIds) :
      LET image_path_list == ValPaths(n) IN
        /\ dataset = PairDataset(image_path_list, image_path_list)
        /\ ctorArgs = <<image_path_list, image_path_list>>
        /\ consumed = n
        /\ src_paths = image_path_list
        /\ tgt_paths = image_path_list
        /\ source_img \in [1..n -> Pixels]
        /\ target_img = image_path_list
    /\ batch_idx = 1
    /\ target_rep = <<>>
    /\ perturbed_img = <<>>
    /\ step = 0
    /\ grad = <<>>
    /\ similarity = NoFloat
    /\ rep_dist = NoFloat
    /\ adv_imgs = <<>>
    /\ simOf = EmptyFn
    /\ gradOf = EmptyFn
    /\ paramGrad = 0
    /\ weights = Pretrained
    /\ extraction = NoExtraction
    /\ idx = 0
    /\ pair_list = <<>>
    /\ err = "none"
    /\ hist = NoHist

NextOpt ==
    \/ TargetRep
    \/ LoopNext
    \/ LoopEnd
    \/ Forward
    \/ ZeroGrad
    \/ Backward
    \/ Update
    \/ Check
    \/ Final

SpecOpt == InitOpt /\ [][NextOpt]_vars

\* The function runs sequentially to its return: a step that can be taken is taken.
FairSpecOpt == SpecOpt /\ WF_vars(NextOpt)

\* ------------------------------------------------------------------ claims
InOptimizer ==
    pc \in {"loop", "forward", "zero_grad", "backward", "update", "check", "final",
            "returned"}

\* C1: in iterative_grad_attack, whatever the learning rate, the gradient and the
\* step count, every element of perturbed_img is in [-1, 1] at the end of every
\* loop iteration and at the return, the source being in [-1, 1].
C1_ImageInRange == InOptimizer => InRange(perturbed_img)

\* The step at which the loop has to stop: the first step whose similarity,
\* measured before the update, is above 0.99, and the step budget without one.
KStar == IF hist.call.firstHigh = 0 THEN args.n_steps ELSE hist.call.firstHigh

\* C2 as stated: when the similarity exceeds 0.99 at step k, no later step runs
\* and what is returned is step k's measurement: the image whose similarity was
\* measured above 0.99, with that similarity.
C2_ReturnsMeasuredImage ==
    (pc = "returned" /\ hist.call.firstHigh # 0) =>
        /\ step = hist.call.firstHigh
        /\ perturbed_img = hist.call.measured
        /\ rep_dist = similarity

\* C2, amended: when the similarity exceeds 0.99 at step k, no later step runs
\* (k evaluations, k updates), the image returned is the measured image after
\* step k's own update and clamp, and the similarity returned is the one of
\* that updated image.
C2_EarlyStop ==
    (pc = "returned" /\ hist.call.firstHigh # 0) =>
        /\ step = hist.call.firstHigh
        /\ hist.call.nEvals = hist.call.firstHigh
        /\ hist.call.nUpdates = hist.call.firstHigh
        /\ perturbed_img = UpdateTensor(hist.call.measured, args.lr, grad)
        /\ rep_dist = simOf[perturbed_img]

\* An early stop at step 1 of 2 that returns another image than the measured one.
C2_Witness ==
    /\ pc = "returned"
    /\ hist.call.firstHigh = 1
    /\ args.n_steps = 2
    /\ perturbed_img # hist.call.measured

\* The pairing of an attack() failed on source and target lists that do not
\* match in length: the assertion of PairDataset (line 33), or, as main.py
\* builds the two lists from the same lines, the target list falling short of
\* the source list at line 208.
PairingFailed ==
    /\ pc = "aborted"
    /\ err \in {"AssertionError", "IndexError"}

Occurrences(s, x) == Cardinality({i \in 1..Len(s) : s[i] = x})

\* C4: in val mode, for N ids and any seed, the pairing given to PairDataset has
\* exactly N pairs, every id is a source exactly once, and the targets are a
\* permutation of the same ids.
C4_SelfPairing ==
    (mode = "val" /\ dataset.ok) =>
        LET src == dataset.source_image_paths
            tgt == dataset.target_image_paths
            ids == {IdOfPath(tgt[i]) : i \in 1..Len(tgt)}
        IN  /\ Len(src) = Len(tgt)
            /\ Cardinality(ids) = Len(tgt)
            /\ \A i \in 1..Len(tgt) : Occurrences(src, tgt[i]) = 1
            /\ \A i \in 1..Len(src) : Occurrences(tgt, src[i]) = 1
            /\ {IdOfPath(src[i]) : i \in 1..Len(src)} = ids

\* A val pairing of two ids in which each id attacks the other.
C4_Witness ==
    /\ mode = "val"
    /\ dataset.ok
    /\ Len(dataset.source_image_paths) = 2
    /\ dataset.source_image_paths[1] = dataset.target_image_paths[2]
    /\ pc = "batch_loop"

\* C5: whenever a backward pass starts, in any step of any batch, the provider's
\* stored parameter gradients are zero, and its weights are never changed.
C5_CleanGradients ==
    /\ pc = "backward" => paramGrad = 0
    /\ weights = Pretrained

\* A backward pass is about to start in the second batch of a run.
C5_Witness ==
    /\ pc = "backward"
    /\ hist.batches >= 2
    /\ batch_idx = 2

ImageFile(s) ==
    [dir |-> LogDir(s.mode), name |-> SourceName(s.source),
     data |-> <<"crop_resize_back", IdOfPath(s.source)>>]

PairOf(s) == <<SourceName(s.source), TargetName(s.target)>>

SamplesOf(m) == SelectSeq(hist.samples, LAMBDA s : s.mode = m)

PairRecords(m) ==
    {f \in files : f.dir = LogDir(m) /\ f.name = <<"pair.pickle">>}

\* C6 as stated: in both modes, for every sample reconstructed, the composited
\* image and a pairing record (source_name, target_name) are persisted.
C6_BothModesRecord ==
    pc = "exit" =>
        \A i \in 1..Len(hist.samples) :
            /\ ImageFile(hist.samples[i]) \in files
            /\ \E f \in PairRecords(hist.samples[i].mode) :
                \E j \in 1..Len(f.data) : f.data[j] = PairOf(hist.samples[i])

\* C6, amended: in both modes every sample handed out goes through the attack and
\* the reconstruction, in order, and its composited image is saved under its
\* source id.  Only the val branch keeps a pairing record: the pairs, in order,
\* written once to pair.pickle after the last batch; the test branch writes none.
C6_ImagesAndValRecord ==
    /\ \A i \in 1..Len(hist.samples) : ImageFile(hist.samples[i]) \in files
    /\ pc \in {"batch_loop", "dump", "attack_return"} =>
            Len(SamplesOf(mode)) = consumed
    /\ pc = "samples" =>
            Len(SamplesOf(mode)) = consumed - Len(src_paths) + idx
    /\ (mode = "test" \/ (mode = "val" /\ pc = "attack_return")) =>
            PairRecords("val") =
                {[dir |-> "logs/val", name |-> <<"pair.pickle">>,
                  data |-> [i \in 1..Len(SamplesOf("val")) |-> PairOf(SamplesOf("val")[i])]]}
    /\ PairRecords("test") = {}

\* A run has ended in which both branches reconstructed a sample.
C6_Witness ==
    /\ pc = "exit"
    /\ Len(SamplesOf("val")) = 2
    /\ Len(SamplesOf("test")) = 2

\* C7: when the metadata file of a sample is missing, the run is aborted there:
\* no image is written for the sample, nothing is recorded for it, the files
\* written before stay, and no step follows.
C7_MissingMetadataAborts ==
    [][/\ pc # "aborted"
       /\ hist'.missing # hist.missing =>
            /\ files' = files
            /\ pair_list' = pair_list
            /\ hist'.samples = hist.samples
            /\ consumed' = consumed
            /\ err' = "FileNotFoundError"
            /\ pc' = "aborted"]_vars

\* The metadata of the first of two test samples is missing, after the val
\* branch saved its images: those stay, and the second sample is never handled.
C7_Witness ==
    /\ pc = "aborted"
    /\ err = "FileNotFoundError"
    /\ mode = "test"
    /\ Len(hist.missing) = 1
    /\ Len(SamplesOf("val")) >= 1
    /\ Len(SamplesOf("test")) = 0
    /\ Len(dataset.source_image_paths) = 2
    /\ \A i \in 1..Len(hist.samples) : ImageFile(hist.samples[i]) \in files

\* C8: when a step yields a non-finite similarity or gradient, the optimization
\* is aborted and reported as failed: the optimizer does not return normally,
\* and no image of that optimization is written.
C8_NonFiniteAborts ==
    /\ pc = "returned" => ~hist.call.nonFinite
    /\ hist.tainted => idx = 0

\* What C9 says of the state at the return of iterative_grad_attack.
C9_Counts ==
    pc = "returned" =>
        /\ hist.call.nUpdates = hist.call.nEvals
        /\ hist.call.nUpdates = Min(args.n_steps, KStar)
        /\ step = hist.call.nUpdates
        /\ args.n_steps = 0 => perturbed_img = source_img
        /\ hist.call.firstHigh = 1 => hist.call.nUpdates = 1

\* C9: iterative_grad_attack terminates, and at its return the number of updates
\* equals the number of in-loop similarity evaluations and min(n_steps, k*); with
\* n_steps = 0 the image returned is the source, and a source whose similarity
\* is already above 0.99 gets exactly one update.
C9_TerminatesWithCounts == []C9_Counts /\ <>(pc = "returned")

\* The source already has a similarity above 0.99 and the budget is two steps:
\* one update has been applied at the return.
C9_Witness ==
    /\ pc = "returned"
    /\ args.n_steps = 2
    /\ hist.call.firstHigh = 1
    /\ hist.call.nUpdates = 1
    /\ hist.call.measured = source_img

\* C10: the similarity returned is the one of the final clamped image, computed
\* after the loop against the target embedding computed once before it; the
\* images returned are that image, denormalized.
C10_FinalSimilarity ==
    pc = "returned" =>
        /\ rep_dist = simOf[perturbed_img]
        /\ adv_imgs = [i \in 1..Len(perturbed_img) |->
                            fixed_image_standardization_inverse(perturbed_img[i])]
        /\ hist.call.nTargetRep = 1
        /\ target_rep = Embed(target_img)

\* The loop ran out of steps and the similarity returned differs from the last
\* one measured in the loop.
C10_Witness ==
    /\ pc = "returned"
    /\ hist.call.firstHigh = 0
    /\ step = 2
    /\ rep_dist # similarity

====
